---- MODULE Spec2Model ----
(***************************************************************************)
(* A model of the pipeline runner of art: ArtProject (add_step,            *)
(* replace_step, run_all with its rerun decision) in                       *)
(* src/art/experiment/Experiment.py and the Step / ModelStep lifecycle in  *)
(* src/art/step/step.py.                                                   *)
(*                                                                         *)
(* Python objects are modelled by reference where the code shares them:    *)
(* Step.get_results returns the step's dict itself, so what run_all puts   *)
(* into step_states and into a StepStatus is the dict object, not a copy.  *)
(* A stored reference is a record [of |-> the set holding the step whose   *)
(* `results` attribute still is this very dict (empty once load_results    *)
(* has rebound the attribute), val |-> the dict's contents].               *)
(***************************************************************************)
EXTENDS Integers, Sequences, FiniteSets, TLC

\* ------------------------------------------------------------------ bounds
\* The caller makes at most MaxCalls calls (add_step, replace_step, run_all)
\* and code edits in all.
MaxCalls == 4

\* ------------------------------------------------- the step objects at hand
\* Three step instances a caller has created: two plain steps and one model
\* step, all named "A" (self.name is set by the concrete step class).
StepIds == {"s1", "s2", "s3"}

StepClass(s) == IF s = "s3" THEN "ModelStep" ELSE "Step"

StepName(s) == "A"

\* ModelStep.get_model_name: self.model.__class__.__name__
ModelClassName(s) == "M"

Fingerprints == {"h1", "h2"}

\* What a concrete step's `do` may add to its results before it returns or
\* raises: nothing, or a value for the key "acc".
DoOutputs == {<< >>, [k \in {"acc"} |-> "v1"]}

\* The (checks, skipped_metrics) pairs add_step is called with: two checks
\* and one metric to skip.  Checks that all report positive behave as an
\* empty list does.
RecordInputs ==
    { [checks |-> <<"c1", "c2">>, skipped_metrics |-> <<"m1">>] }

VARIABLES
    steps,          \* ArtProject.steps: list of {"step", "checks", "skipped_metrics"}
    idx,            \* Step.idx of the steps that had set_step_id called
    results,        \* Step.results of every step object
    fp,             \* the digest get_hash currently yields for each step
    store,          \* the result store (JSONStepSaver), keyed by <<step id, name>>
    step_states,    \* ArtProject.state.step_states[model name][label]
    current_step,   \* ArtProject.state.current_step
    compiled,       \* the exclusions last given to metric_calculator.compile
    pc,             \* position of the caller / of run_all
    i,              \* position of run_all's for loop in self.steps (1-based)
    force_rerun,    \* run_all's argument
    steps_status,   \* run_all's local steps_status
    turn,           \* what happened in the current turn of the loop
    done,           \* per finished turn of this run: its tag and results
    calls,          \* number of calls and code edits the caller has made
    clean,          \* "yes": the last run_all was not forced, no `do` raised in
                    \* it, and the caller changed nothing since; "raised": the
                    \* same but some `do` raised; else "no"
    second,         \* the value of clean when this run_all began ("no" when
                    \* this run_all is forced)
    store0,         \* the result store as it was when this run_all began
    uncaught,       \* an exception left run_all
    last_call       \* the registry call (add_step, replace_step) made last and
                    \* its arguments; cleared when run_all is called

vars == << steps, idx, results, fp, store, step_states, current_step, compiled,
           pc, i, force_rerun, steps_status, turn, done, calls,
           clean, second, store0, uncaught, last_call >>

\* ------------------------------------------------------------ Python dicts
EmptyDict == << >>

DictSet(d, k, v) == [x \in (DOMAIN d) \cup {k} |-> IF x = k THEN v ELSE d[x]]

\* dict.update(other)
DictUpdate(d, other) ==
    [x \in (DOMAIN d) \cup (DOMAIN other) |->
        IF x \in DOMAIN other THEN other[x] ELSE d[x]]

\* ------------------------------------------------------- f"{idx}" of an int
Digit(d) ==
    CASE d = 0 -> "0" [] d = 1 -> "1" [] d = 2 -> "2" [] d = 3 -> "3"
      [] d = 4 -> "4" [] d = 5 -> "5" [] d = 6 -> "6" [] d = 7 -> "7"
      [] d = 8 -> "8" [] d = 9 -> "9"

RECURSIVE NatToStr(_)
NatToStr(n) == IF n < 10 THEN Digit(n) ELSE NatToStr(n \div 10) \o Digit(n % 10)

IntToStr(n) == IF n < 0 THEN "-" \o NatToStr(0 - n) ELSE NatToStr(n)

\* ------------------------------------------------------- Step / ModelStep
get_model_name(s) == IF StepClass(s) = "ModelStep" THEN ModelClassName(s) ELSE ""

PlainStepId(s) == IntToStr(idx[s])

\* mutant: the model name is left out of a model step's identifier
ModelStepId_Bare(s) == IntToStr(idx[s])

ModelStepId(s) ==
    IF get_model_name(s) # ""
    THEN get_model_name(s) \o "_" \o IntToStr(idx[s])
    ELSE IntToStr(idx[s])

get_step_id(s) == IF StepClass(s) = "ModelStep" THEN ModelStepId(s) ELSE PlainStepId(s)

get_name_with_id(s) == IntToStr(idx[s]) \o "_" \o StepName(s)

get_full_step_name(s) == get_step_id(s) \o "_" \o StepName(s)

get_hash(s) == fp[s]

\* ------------------------------------------------ result store (JSONStepSaver)
StoreKey(step_id, name) == << step_id, name >>

KeyOf(s) == StoreKey(get_step_id(s), StepName(s))

Saved(st, s, res) == (KeyOf(s) :> res) @@ st

Loaded(s) == store[KeyOf(s)]

was_run(s) == KeyOf(s) \in DOMAIN store

\* --------------------------------------------------- references to a dict
Ref(s, d) == [of |-> {s}, val |-> d]

\* the dict object of step s now holds d (add_result, results.update)
Touched(r, s, d) == IF s \in r.of THEN [r EXCEPT !.val = d] ELSE r

\* step s's `results` attribute was rebound to another dict (load_results)
Detached(r, s) == IF s \in r.of THEN [r EXCEPT !.of = {}] ELSE r

StatesTouched(ss, s, d) ==
    [m \in DOMAIN ss |-> [l \in DOMAIN ss[m] |-> Touched(ss[m][l], s, d)]]

StatesDetached(ss, s) ==
    [m \in DOMAIN ss |-> [l \in DOMAIN ss[m] |-> Detached(ss[m][l], s)]]

StatusTouched(st, s, d) ==
    [n \in DOMAIN st |-> [st[n] EXCEPT !.results = Touched(@, s, d)]]

StatusDetached(st, s) ==
    [n \in DOMAIN st |-> [st[n] EXCEPT !.results = Detached(@, s)]]

\* ------------------------------------------------------------- the checks
\* A check is an external collaborator: check.check(step).is_positive is an
\* input of the evaluation.  verdict[n] is what the n-th check of the list
\* reports in this evaluation.
Verdicts(checks) == [1..Len(checks) -> BOOLEAN]

\* mutant: every check is evaluated before a non-positive one is reported
check_checks_NoStop(checks, verdict, n) ==
    [raised |-> \E k \in n..Len(checks) : ~verdict[k], evaluated |-> Len(checks)]

\* ArtProject.check_checks: the loop stops at the first non-positive check.
RECURSIVE check_checks(_, _, _)
check_checks(checks, verdict, n) ==
    IF n > Len(checks) THEN [raised |-> FALSE, evaluated |-> Len(checks)]
    ELSE IF ~verdict[n] THEN [raised |-> TRUE, evaluated |-> n]
    ELSE check_checks(checks, verdict, n + 1)

\* mutant: the comparison of the two hashes is inverted
check_if_must_be_run_Inverted(s, checks, verdict) ==
    IF ~was_run(s)
    THEN [must |-> TRUE, loaded |-> FALSE, res |-> results[s],
          evaluated |-> 0, keyerror |-> FALSE]
    ELSE LET res == Loaded(s)
             cc  == check_checks(checks, verdict, 1)
         IN  [must |-> cc.raised \/ (get_hash(s) = res["hash"]), loaded |-> TRUE,
              res |-> res, evaluated |-> cc.evaluated, keyerror |-> FALSE]

\* mutant: a non-positive check during the decision is swallowed and the
\* decision falls through to the comparison of the hashes
check_if_must_be_run_IgnoreChecks(s, checks, verdict) ==
    IF ~was_run(s)
    THEN [must |-> TRUE, loaded |-> FALSE, res |-> results[s],
          evaluated |-> 0, keyerror |-> FALSE]
    ELSE LET res == Loaded(s)
             cc  == check_checks(checks, verdict, 1)
         IN  [must |-> (get_hash(s) # res["hash"]), loaded |-> TRUE,
              res |-> res, evaluated |-> cc.evaluated, keyerror |-> FALSE]

\* mutant: the stored results are read for the comparison but the step's
\* results attribute is not rebound to them
check_if_must_be_run_NoLoad(s, checks, verdict) ==
    IF ~was_run(s)
    THEN [must |-> TRUE, loaded |-> FALSE, res |-> results[s],
          evaluated |-> 0, keyerror |-> FALSE]
    ELSE LET res == Loaded(s)
             cc  == check_checks(checks, verdict, 1)
         IN  [must |-> cc.raised \/ (get_hash(s) # res["hash"]), loaded |-> FALSE,
              res |-> results[s], evaluated |-> cc.evaluated, keyerror |-> FALSE]

\* ArtProject.check_if_must_be_run: the value returned and what it did on
\* the way (load_results rebinds step.results to the stored dict).
check_if_must_be_run(s, checks, verdict) ==
    IF ~was_run(s)
    THEN [must |-> TRUE, loaded |-> FALSE, res |-> results[s],
          evaluated |-> 0, keyerror |-> FALSE]
    ELSE LET res == Loaded(s)
             cc  == check_checks(checks, verdict, 1)
         IN  IF cc.raised
             THEN [must |-> TRUE, loaded |-> TRUE, res |-> res,
                   evaluated |-> cc.evaluated, keyerror |-> FALSE]
             ELSE IF "hash" \notin DOMAIN res
             THEN [must |-> TRUE, loaded |-> TRUE, res |-> res,
                   evaluated |-> cc.evaluated, keyerror |-> TRUE]
             ELSE [must |-> (get_hash(s) # res["hash"]), loaded |-> TRUE,
                   res |-> res, evaluated |-> cc.evaluated, keyerror |-> FALSE]

\* ArtProject.fill_step_states on the defaultdict step_states
fill_step_states(ss, s) ==
    LET m == get_model_name(s)
        inner == IF m \in DOMAIN ss THEN ss[m] ELSE << >>
    IN  (m :> ((get_name_with_id(s) :> Ref(s, results[s])) @@ inner)) @@ ss

StepStatus(status, s) == [status |-> status, results |-> Ref(s, results[s])]

SetStatus(st, s, status) == (get_full_step_name(s) :> StepStatus(status, s)) @@ st

\* -------------------------------------------------------------- the state
NoTurn ==
    [step |-> "none", decided |-> FALSE, must |-> FALSE, loaded |-> FALSE,
     stored |-> {}, dverdict |-> << >>, dchecks |-> 0, stamped |-> FALSE, called |-> FALSE,
     raised |-> FALSE, wrote |-> FALSE, pverdict |-> << >>, pchecks |-> 0,
     tag |-> "none"]

NoCall == [op |-> "none", step |-> "none", step_id |-> 0]

Init ==
    /\ steps = << >>
    /\ idx = << >>
    /\ results = [s \in StepIds |-> EmptyDict]
    /\ fp = [s \in StepIds |-> "h1"]
    /\ store = << >>
    /\ step_states = << >>
    /\ current_step = "none"
    /\ compiled = << >>
    /\ pc = "idle"
    /\ i = 0
    /\ force_rerun = FALSE
    /\ steps_status = << >>
    /\ turn = NoTurn
    /\ done = << >>
    /\ calls = 0
    /\ clean = "no"
    /\ second = "no"
    /\ store0 = << >>
    /\ uncaught = FALSE
    /\ last_call = NoCall

runVars == << current_step, compiled, i, force_rerun, steps_status, turn, done,
              second, store0, uncaught, results, store, step_states >>

\* ------------------------------------------------------ registry operations
\* Step.set_step_id
set_step_id(s, n) == (s :> n) @@ idx

\* mutant: the index is taken before the append (0-based)
NewStepId_ZeroBased == Len(steps)

\* add_step line 53: len(self.steps), taken after the append
NewStepId == Len(steps) + 1

\* ArtProject.add_step(step, checks, skipped_metrics)
add_step(s, inp) ==
    /\ pc = "idle"
    /\ calls < MaxCalls
    /\ calls' = calls + 1
    /\ steps' = Append(steps, [step |-> s, checks |-> inp.checks,
                               skipped_metrics |-> inp.skipped_metrics])
    /\ idx' = set_step_id(s, NewStepId)
    /\ clean' = "no"
    /\ last_call' = [op |-> "add_step", step |-> s, step_id |-> 0]
    /\ UNCHANGED << runVars, fp, pc >>

\* Python list indexing self.steps[step_id]: the 1-based position addressed
ListPos(step_id) == IF step_id < 0 THEN Len(steps) + step_id + 1 ELSE step_id + 1

\* mutant: the default index is not turned into the length of the list
ReplacedId_NoDefault(step_id) == step_id

\* replace_step lines 125-127: the id handed to set_step_id
ReplacedId(step_id) == IF step_id = -1 THEN Len(steps) ELSE step_id

\* ArtProject.replace_step(step, step_id); an index outside the list raises
\* IndexError before anything is changed.
replace_step(s, step_id) ==
    /\ pc = "idle"
    /\ calls < MaxCalls
    /\ ListPos(step_id) \in 1..Len(steps)
    /\ steps' = [steps EXCEPT ![ListPos(step_id)].step = s]
    /\ idx' = set_step_id(s, ReplacedId(step_id))
    /\ calls' = calls + 1
    /\ clean' = "no"
    /\ last_call' = [op |-> "replace_step", step |-> s, step_id |-> step_id]
    /\ UNCHANGED << runVars, fp, pc >>

\* The developer edits the code a step's fingerprint is computed from.
ChangeCode(s, h) ==
    /\ pc = "idle"
    /\ calls < MaxCalls
    /\ h # fp[s]
    /\ fp' = [fp EXCEPT ![s] = h]
    /\ calls' = calls + 1
    /\ clean' = "no"
    /\ UNCHANGED << runVars, steps, idx, pc, last_call >>

\* ------------------------------------------------------------------ run_all
\* run_all(force_rerun): the call, and line 91
RunAll(force) ==
    /\ pc = "idle"
    /\ calls < MaxCalls
    /\ calls' = calls + 1
    /\ force_rerun' = force
    /\ steps_status' = << >>
    /\ i' = 1
    /\ pc' = IF Len(steps) = 0 THEN "report" ELSE "loop"
    /\ turn' = NoTurn
    /\ done' = << >>
    /\ second' = IF force THEN "no" ELSE clean
    /\ clean' = IF force THEN "no" ELSE "yes"
    /\ store0' = store
    /\ last_call' = NoCall
    /\ UNCHANGED << steps, idx, results, fp, store, step_states, current_step,
                    compiled, uncaught >>

\* lines 93-97: the next record is taken from the list
TurnStart ==
    /\ pc = "loop"
    /\ compiled' = steps[i].skipped_metrics
    /\ current_step' = steps[i].step
    /\ turn' = [NoTurn EXCEPT !.step = steps[i].step]
    /\ pc' = "decide"
    /\ UNCHANGED << steps, idx, results, fp, store, step_states, i, force_rerun,
                    steps_status, done, calls, last_call, clean, second,
                    store0, uncaught >>

\* mutant: force_rerun is not looked at
AfterDecision_IgnoreForce(must, force) == IF ~must THEN "skip" ELSE "stamp"

\* line 99: `not check_if_must_be_run(...) and not force_rerun` chooses
\* between the skip branch and the execution
AfterDecision(must, force) == IF ~must /\ ~force THEN "skip" ELSE "stamp"

\* line 99: check_if_must_be_run is evaluated first, force_rerun after it
Decide ==
    /\ pc = "decide"
    /\ LET s == current_step
           checks == steps[i].checks
       IN  \E verdict \in (IF was_run(s) THEN Verdicts(checks) ELSE {<< >>}) :
             LET d == check_if_must_be_run(s, checks, verdict)
             IN  /\ results' = [results EXCEPT ![s] = d.res]
                 /\ step_states' = IF d.loaded THEN StatesDetached(step_states, s)
                                   ELSE step_states
                 /\ steps_status' = IF d.loaded THEN StatusDetached(steps_status, s)
                                    ELSE steps_status
                 /\ turn' = [turn EXCEPT !.decided = TRUE, !.must = d.must,
                                         !.loaded = d.loaded, !.dverdict = verdict,
                                         !.dchecks = d.evaluated,
                                         !.stored = IF was_run(s) THEN {Loaded(s)}
                                                    ELSE {}]
                 /\ uncaught' = d.keyerror
                 /\ pc' = IF d.keyerror THEN "idle"
                          ELSE AfterDecision(d.must, force_rerun)
    /\ UNCHANGED << steps, idx, fp, store, current_step, compiled, i, force_rerun,
                    done, calls, last_call, clean, second, store0 >>

\* mutant: a failed step ends the loop
NextPc_Abort ==
    IF turn.tag = "Failed" \/ i + 1 > Len(steps) THEN "report" ELSE "loop"

\* the loop moves on: the next record, or the report after the last one
NextPc == IF i + 1 > Len(steps) THEN "report" ELSE "loop"

\* lines 100-102: Skipped, fill_step_states, continue
Skip ==
    /\ pc = "skip"
    /\ steps_status' = SetStatus(steps_status, current_step, "Skipped")
    /\ step_states' = fill_step_states(step_states, current_step)
    /\ turn' = [turn EXCEPT !.tag = "Skipped"]
    /\ done' = Append(done, [tag |-> "Skipped", results |-> results[current_step]])
    /\ i' = i + 1
    /\ pc' = NextPc
    /\ UNCHANGED << steps, idx, results, fp, store, current_step, compiled,
                    force_rerun, calls, last_call, clean, second, store0,
                    uncaught >>

\* mutant: the hash is not stamped before the call
Stamped_None(s) == results[s]

\* mutant: the stamp starts a fresh dict
Stamped_Fresh(s) == [k \in {"hash"} |-> get_hash(s)]

\* mutant: the hash is only set when the results hold none yet (setdefault)
Stamped_Stale(s) ==
    IF "hash" \in DOMAIN results[s] THEN results[s]
    ELSE DictSet(results[s], "hash", get_hash(s))

\* Step.add_result("hash", step.get_hash()): the dict after line 104
Stamped(s) == DictSet(results[s], "hash", get_hash(s))

\* line 104: the stamp changes the step's dict in place
Stamp ==
    /\ pc = "stamp"
    /\ LET s == current_step
           d == Stamped(s)
       IN  /\ results' = [results EXCEPT ![s] = d]
           /\ step_states' = StatesTouched(step_states, s, d)
           /\ steps_status' = StatusTouched(steps_status, s, d)
    /\ turn' = [turn EXCEPT !.stamped = TRUE]
    /\ pc' = "call"
    /\ UNCHANGED << steps, idx, fp, store, current_step, compiled, i, force_rerun,
                    done, calls, last_call, clean, second, store0, uncaught >>

\* mutant: the results are saved before do has run
StepCall_SaveFirst(s, out, raises) ==
    [res |-> DictUpdate(results[s], out), store |-> Saved(store, s, results[s]),
     wrote |-> TRUE]

\* Step.__call__ / ModelStep.__call__: do, then JSONStepSaver().save; a raise
\* of do leaves __call__ before the save
StepCall(s, out, raises) ==
    LET d == DictUpdate(results[s], out)
    IN  [res |-> d, store |-> IF raises THEN store ELSE Saved(store, s, d),
         wrote |-> ~raises]

\* lines 106-107 and, when the call raises, 110-112
Execute ==
    /\ pc = "call"
    /\ \E out \in DoOutputs, raises \in BOOLEAN :
         LET s == current_step
             c == StepCall(s, out, raises)
             st == StatusTouched(steps_status, s, c.res)
         IN  /\ results' = [results EXCEPT ![s] = c.res]
             /\ store' = c.store
             /\ step_states' = StatesTouched(step_states, s, c.res)
             /\ turn' = [turn EXCEPT !.called = TRUE, !.raised = raises,
                                     !.wrote = c.wrote,
                                     !.tag = IF raises THEN "Failed" ELSE @]
             /\ steps_status' =
                    IF raises
                    THEN (get_full_step_name(s) :>
                            [status |-> "Failed", results |-> Ref(s, c.res)]) @@ st
                    ELSE st
             /\ clean' = IF raises /\ clean = "yes" THEN "raised" ELSE clean
             /\ pc' = IF raises THEN "merge" ELSE "checks"
    /\ UNCHANGED << steps, idx, fp, current_step, compiled, i, force_rerun, done,
                    calls, last_call, second, store0, uncaught >>

\* lines 108-112: the checks after the call; Completed, or Failed on a raise
PostCheck ==
    /\ pc = "checks"
    /\ \E verdict \in Verdicts(steps[i].checks) :
         LET cc == check_checks(steps[i].checks, verdict, 1)
             tag == IF cc.raised THEN "Failed" ELSE "Completed"
         IN  /\ steps_status' = SetStatus(steps_status, current_step, tag)
             /\ turn' = [turn EXCEPT !.pverdict = verdict,
                                     !.pchecks = cc.evaluated, !.tag = tag]
    /\ pc' = "merge"
    /\ UNCHANGED << steps, idx, results, fp, store, step_states, current_step,
                    compiled, i, force_rerun, done, calls, last_call, clean,
                    second, store0, uncaught >>

\* line 114: fill_step_states, and the loop moves on
Merge ==
    /\ pc = "merge"
    /\ step_states' = fill_step_states(step_states, current_step)
    /\ done' = Append(done, [tag |-> turn.tag, results |-> results[current_step]])
    /\ i' = i + 1
    /\ pc' = NextPc
    /\ UNCHANGED << steps, idx, results, fp, store, current_step, compiled,
                    force_rerun, steps_status, turn, calls, last_call,
                    clean, second, store0, uncaught >>

\* lines 116-118: the report, one line per entry of steps_status
ReportLines == [n \in DOMAIN steps_status |-> steps_status[n].status]

Report ==
    /\ pc = "report"
    /\ pc' = "idle"
    /\ steps_status' = << >>
    /\ turn' = NoTurn
    /\ done' = << >>
    /\ i' = 0
    /\ second' = "no"
    /\ store0' = store
    /\ UNCHANGED << steps, idx, results, fp, store, step_states, current_step,
                    compiled, force_rerun, calls, last_call, clean, uncaught >>

Next ==
    \/ \E s \in StepIds, inp \in RecordInputs : add_step(s, inp)
    \/ \E s \in StepIds, step_id \in (0 - Len(steps))..(Len(steps) - 1) : replace_step(s, step_id)
    \/ \E s \in StepIds, h \in Fingerprints : ChangeCode(s, h)
    \/ \E force \in BOOLEAN : RunAll(force)
    \/ TurnStart
    \/ Decide
    \/ Skip
    \/ Stamp
    \/ Execute
    \/ PostCheck
    \/ Merge
    \/ Report

Spec == Init /\ [][Next]_vars

\* ===================================================================== claims
AllPositive(verdict) == \A n \in DOMAIN verdict : verdict[n]

RecStep(j) == steps[j].step

\* no two records of the registry use the same result-store key
DistinctRecordKeys ==
    \A j, k \in 1..Len(steps) : j # k => KeyOf(RecStep(j)) # KeyOf(RecStep(k))

DistinctInstances ==
    \A j, k \in 1..Len(steps) : j # k => RecStep(j) # RecStep(k)

StoredHashDiffers ==
    \E e \in turn.stored : "hash" \in DOMAIN e /\ e["hash"] # fp[turn.step]

StoredHashMatches ==
    \E e \in turn.stored : "hash" \in DOMAIN e /\ e["hash"] = fp[turn.step]

RunStep ==
    TurnStart \/ Decide \/ Skip \/ Stamp \/ Execute \/ PostCheck \/ Merge \/ Report

\* C3: a step whose work raises or whose check after the execution is
\* non-positive is classified Failed; the loop goes on all the same: every
\* later record is processed, skipped exactly when its own decision says so
\* and the run is not forced, no exception leaves run_all, and the report
\* is reached only after the last record; a run under way can always take
\* its next step.
C3_FailureContained ==
    /\ ~uncaught
    /\ pc # "idle" => ENABLED RunStep
    /\ (pc \in {"loop"} \cup {"decide", "skip", "stamp", "call", "checks", "merge"}) =>
            (i \in 1..Len(steps) /\ Len(done) = i - 1)
    /\ pc = "report" => Len(done) = Len(steps)
    /\ turn.tag # "none" =>
         /\ (turn.raised \/ (turn.called /\ ~AllPositive(turn.pverdict)))
                => turn.tag = "Failed"
         /\ turn.tag = "Skipped" <=> (~turn.must /\ ~force_rerun)
    /\ pc = "merge" =>
         /\ get_full_step_name(turn.step) \in DOMAIN steps_status
         /\ steps_status[get_full_step_name(turn.step)].status = turn.tag

C3_Witness ==
    /\ pc = "report"
    /\ Len(done) = 2
    /\ done[1].tag = "Failed"
    /\ done[2].tag = "Skipped"

\* C4: the rerun decision is false exactly when the store has an entry for
\* the step, every check reports positive on the loaded results, and the
\* step's fingerprint equals the stored "hash"; a non-positive check makes
\* it true and is not propagated as an error.
C4_RerunDecision ==
    (turn.decided /\ pc \in {"skip", "stamp"}) =>
        /\ ~uncaught
        /\ ~turn.must <=>
             /\ was_run(turn.step)
             /\ AllPositive(turn.dverdict)
             /\ get_hash(turn.step) = Loaded(turn.step)["hash"]
        /\ turn.loaded <=> was_run(turn.step)
        /\ turn.loaded => results[turn.step] = Loaded(turn.step)
        /\ (pc = "skip") <=> (~turn.must /\ ~force_rerun)

C4_Witness ==
    /\ pc = "stamp"
    /\ ~force_rerun
    /\ turn.decided /\ turn.must
    /\ StoredHashMatches
    /\ ~AllPositive(turn.dverdict)

C6_ForceRerun ==
    (force_rerun /\ pc # "idle") =>
        /\ pc # "skip"
        /\ turn.tag # "none" => (turn.called /\ turn.tag \in {"Completed", "Failed"})
        /\ \A j \in 1..Len(done) : done[j].tag \in {"Completed", "Failed"}
        /\ \A n \in DOMAIN steps_status : steps_status[n].status # "Skipped"
        /\ pc = "report" => Len(done) = Len(steps)

C6_Witness ==
    /\ force_rerun
    /\ turn.called
    /\ ~turn.must
    /\ StoredHashMatches
    /\ turn.dchecks = Len(steps[i].checks)
    /\ AllPositive(turn.dverdict)

\* C7 (as stated): when the runner starts on record k, ProjectState holds for
\* every earlier record j an entry under [model name][index_name] of j's step
\* equal to that step's results at the end of j's turn.
C7_Original ==
    pc = "decide" =>
        \A j \in 1..(i - 1) :
            LET m == get_model_name(RecStep(j))
                l == get_name_with_id(RecStep(j))
            IN  /\ m \in DOMAIN step_states
                /\ l \in DOMAIN step_states[m]
                /\ step_states[m][l].val = done[j].results

\* C8 (as stated): the report holds exactly one entry per record of the
\* registry, each Skipped, Completed or Failed.
C8_Original ==
    pc = "report" =>
        /\ Cardinality(DOMAIN ReportLines) = Len(steps)
        /\ \A n \in DOMAIN ReportLines :
              ReportLines[n] \in {"Skipped", "Completed", "Failed"}

Decimal(n) ==
    CASE n = 0 -> "0" [] n = 1 -> "1" [] n = 2 -> "2" [] n = 3 -> "3"
      [] n = 4 -> "4" [] n = 5 -> "5" [] n = 6 -> "6"
      [] n = -1 -> "-1" [] n = -2 -> "-2" [] n = -3 -> "-3" [] n = -4 -> "-4"
      [] n = -5 -> "-5" [] n = -6 -> "-6"

SameSlotOtherModel(s, t) ==
    /\ s # t
    /\ idx[s] = idx[t]
    /\ StepName(s) = StepName(t)
    /\ get_model_name(s) # get_model_name(t)

\* C10: a plain step with index i and name n has identifier "i" and full
\* name "i_n"; a model step of model m has identifier "m_i" and full name
\* "m_i_n"; two steps with the same index and name but different model names
\* have different store keys, so executing one neither changes the other's
\* stored entry nor makes was_run true for it.
C10_IdentifierScheme ==
    /\ [](\A s \in DOMAIN idx :
            /\ StepClass(s) = "Step" =>
                 /\ get_step_id(s) = Decimal(idx[s])
                 /\ get_full_step_name(s) = Decimal(idx[s]) \o "_A"
            /\ StepClass(s) = "ModelStep" =>
                 /\ get_step_id(s) = "M_" \o Decimal(idx[s])
                 /\ get_full_step_name(s) = "M_" \o Decimal(idx[s]) \o "_A"
            /\ \A t \in DOMAIN idx : SameSlotOtherModel(s, t) => KeyOf(s) # KeyOf(t))
    /\ [][pc = "call" =>
            \A t \in DOMAIN idx :
                SameSlotOtherModel(current_step, t) =>
                    /\ (KeyOf(t) \in DOMAIN store') <=> (KeyOf(t) \in DOMAIN store)
                    /\ KeyOf(t) \in DOMAIN store => store'[KeyOf(t)] = store[KeyOf(t)]]_vars

C10_Witness ==
    /\ pc = "checks"
    /\ turn.wrote
    /\ ~turn.loaded
    /\ \E t \in DOMAIN idx : SameSlotOtherModel(turn.step, t) /\ was_run(t)

\* C11 (as stated): after any sequence of add_step and replace_step calls
\* with distinct step instances the step held by the k-th record (1-based)
\* has index k, so the steps of distinct records have pairwise distinct
\* indices.
C11_Original ==
    DistinctInstances =>
        /\ \A k \in 1..Len(steps) : idx[RecStep(k)] = k
        /\ \A j, k \in 1..Len(steps) : j # k => idx[RecStep(j)] # idx[RecStep(k)]

\* the record a list subscript a addresses in a list of n records: the
\* (a+1)-th for a >= 0, counted from the end for a < 0
Subscript(a, n) == IF a >= 0 THEN a + 1 ELSE n + 1 + a

\* C12: replace_step(step, index) repoints the record self.steps[index] to
\* step and gives the step that same index as its id; with the default index
\* (-1) it repoints the last record and gives the step the length of the
\* registry as its id.  The length of the registry, the checks and the
\* skipped metrics of every record and the step of every other record stay
\* as they were.
C12_ReplaceStepFrame ==
    [][(last_call'.op = "replace_step" /\ calls' = calls + 1) =>
          LET a == last_call'.step_id
              s == last_call'.step
              p == Subscript(a, Len(steps))
          IN  /\ Len(steps') = Len(steps)
              /\ p \in 1..Len(steps)
              /\ steps'[p].step = s
              /\ idx'[s] = IF a = -1 THEN Len(steps) ELSE a
              /\ a = -1 => p = Len(steps)
              /\ \A k \in 1..Len(steps) :
                    /\ steps'[k].checks = steps[k].checks
                    /\ steps'[k].skipped_metrics = steps[k].skipped_metrics
                    /\ k # p => steps'[k].step = steps[k].step]_vars

C12_Witness ==
    /\ last_call.op = "replace_step"
    /\ last_call.step_id = 1
    /\ Len(steps) = 3
    /\ steps[2].step = last_call.step
    /\ idx[last_call.step] = 1
    /\ steps[1].step # last_call.step
    /\ steps[3].step # last_call.step

\* C13 (as stated): in run_all(force_rerun=True) the rerun decision is not
\* evaluated: when the step's work is about to start, no check has been
\* evaluated against the step in this turn and load_results has not
\* replaced the step's results by the stored ones.
C13_Original ==
    (force_rerun /\ pc \in {"stamp", "call"}) =>
        /\ turn.dchecks = 0
        /\ ~turn.loaded

\* the work of the current turn returned and a check after it was non-positive
PostCheckFailed ==
    /\ turn.called /\ ~turn.raised
    /\ turn.pverdict # << >>
    /\ ~AllPositive(turn.pverdict)

\* C14: when a step's work returns normally and one of its checks is then
\* non-positive, the step is classified Failed; the results of that
\* execution, the stamped hash included, are in the result store and are
\* what is merged into step_states; the checks after the first non-positive
\* one are not evaluated; and the loop goes on with the next record.
C14_PostCheckFailure ==
    PostCheckFailed =>
        LET s == turn.step
        IN  /\ turn.tag = "Failed"
            /\ steps_status[get_full_step_name(s)].status = "Failed"
            /\ turn.stamped /\ turn.wrote
            /\ was_run(s)
            /\ Loaded(s) = results[s]
            /\ Loaded(s)["hash"] = fp[s]
            /\ turn.pchecks \in DOMAIN turn.pverdict
            /\ ~turn.pverdict[turn.pchecks]
            /\ \A n \in 1..(turn.pchecks - 1) : turn.pverdict[n]
            /\ pc \in {"merge", "loop", "report"}
            /\ pc \in {"loop", "report"} =>
                 /\ step_states[get_model_name(s)][get_name_with_id(s)].val = Loaded(s)
                 /\ Len(done) = i - 1
                 /\ done[i - 1].tag = "Failed"
                 /\ done[i - 1].results = Loaded(s)
                 /\ (pc = "loop") <=> (i <= Len(steps))

C14_Witness ==
    /\ PostCheckFailed
    /\ pc = "loop"
    /\ turn.pchecks = 1
    /\ Len(turn.pverdict) = 2
    /\ "acc" \in DOMAIN Loaded(turn.step)
    /\ step_states[get_model_name(turn.step)][get_name_with_id(turn.step)].val
           = Loaded(turn.step)

\* the results map each label of step_states holds
StateContents(ss) == [m \in DOMAIN ss |-> [l \in DOMAIN ss[m] |-> ss[m][l].val]]

\* C15: whenever run_all classifies a step Skipped, the step's `do` is not
\* invoked in that turn, the result store is not written in that turn (it
\* is written only by an execution whose work returned), and the entry
\* merged into step_states for the step is exactly the results map loaded
\* from the result store.
C15_SkipTouchesNothing ==
    /\ [](turn.tag = "Skipped" =>
            LET s == turn.step
            IN  /\ ~turn.stamped /\ ~turn.called /\ ~turn.wrote
                /\ turn.loaded
                /\ turn.stored = {Loaded(s)}
                /\ results[s] = Loaded(s)
                /\ step_states[get_model_name(s)][get_name_with_id(s)].val = Loaded(s)
                /\ done[Len(done)].results = Loaded(s))
    /\ [][(pc \in {"loop", "decide", "skip"} \/ pc' = "skip") => store' = store]_vars
    /\ [][store' # store =>
            (pc = "call" /\ turn'.called /\ turn'.wrote /\ turn'.tag # "Skipped")]_vars

C15_Witness ==
    /\ turn.tag = "Skipped"
    /\ pc = "report"
    /\ "acc" \in DOMAIN Loaded(turn.step)
    /\ step_states[get_model_name(turn.step)][get_name_with_id(turn.step)]
           = [of |-> {turn.step}, val |-> Loaded(turn.step)]
    /\ \E n \in DOMAIN steps_status : steps_status[n].status = "Completed"

\* C16 (as stated): across any sequence of run_all calls on a registry of
\* distinct step instances the contents of
\* step_states change only at a step's merge point (fill_step_states in the
\* skip branch or after the execution attempt); the entry of a step does
\* not change while its execution attempt (stamp, do) is under way.
C16_Original ==
    [][(DistinctInstances /\ StateContents(step_states') # StateContents(step_states))
            => pc \in {"skip", "merge"}]_vars

\* C17: every entry run_all writes to the result store contains the key
\* "hash" (the step's work adds only other keys), so whenever the rerun
\* decision reaches the comparison of the fingerprints the stored "hash" is
\* found, and the decision never raises out of run_all.
C17_StoredHash ==
    /\ [](/\ \A k \in DOMAIN store : "hash" \in DOMAIN store[k]
          /\ \A e \in turn.stored : "hash" \in DOMAIN e
          /\ turn.loaded => "hash" \in DOMAIN results[turn.step]
          /\ ~uncaught
          /\ (\A o \in DoOutputs : "hash" \notin DOMAIN o))
    /\ [][pc = "decide" => (~uncaught' /\ pc' \in {"skip", "stamp"})]_vars
    /\ [][store' # store =>
            /\ turn.stamped
            /\ "hash" \in DOMAIN store'[KeyOf(current_step)]
            /\ \A k \in DOMAIN store' :
                  k # KeyOf(current_step) => (k \in DOMAIN store /\ store'[k] = store[k])]_vars

C17_Witness ==
    /\ turn.decided /\ turn.loaded
    /\ pc = "skip"
    /\ AllPositive(turn.dverdict)
    /\ turn.dchecks = 2
    /\ StoredHashMatches
    /\ Cardinality(DOMAIN store) = 2

\* C18: a re-execution of a step that has a stored entry starts from that
\* entry, not from an empty results map; when its work returns normally the
\* results persisted are the stored entry with "hash" replaced by the
\* current fingerprint and updated by what the work wrote: every key of the
\* stored entry is still there, with its old value unless the work wrote it.
C18_CarryOver ==
    /\ []((pc = "stamp" /\ turn.stored # {}) =>
              /\ results[turn.step] \in turn.stored
              /\ results[turn.step] # EmptyDict)
    /\ [][(pc = "call" /\ pc' = "checks" /\ turn.stored # {}) =>
            \A e \in turn.stored :
                LET new == store'[KeyOf(current_step)]
                IN  /\ turn'.wrote
                    /\ DOMAIN e \subseteq DOMAIN new
                    /\ new["hash"] = fp[current_step]
                    /\ \E o \in DoOutputs :
                          /\ DOMAIN new = (DOMAIN e) \cup (DOMAIN o)
                          /\ \A k \in DOMAIN new :
                                new[k] = IF k \in DOMAIN o THEN o[k]
                                         ELSE IF k = "hash" THEN fp[current_step]
                                         ELSE e[k]]_vars

C18_Witness ==
    /\ pc = "checks"
    /\ turn.wrote
    /\ StoredHashDiffers
    /\ \A e \in turn.stored : "acc" \in DOMAIN e
    /\ Loaded(turn.step) = [acc |-> "v1", hash |-> fp[turn.step]]

====
